---------------------------- MODULE Spec2Model ----------------------------
(***************************************************************************)
(* Model of the N-body simulator and its sliding-window trajectory cache   *)
(* (src/src/game.rs), the input bridge (src/src/keyboard_input.rs) and the *)
(* frame loop that drives them (src/src/main.rs, src/src/lib.rs).          *)
(*                                                                         *)
(* Numbers.  The program computes in f64.  The model computes in decimal   *)
(* fixed point: the integer n stands for the real n / ONE, products and    *)
(* quotients are rounded toward zero (Mul, Div), square roots downward     *)
(* (Sqrt).  Every formula keeps the operation order of the source line it  *)
(* models, so rounding happens where the source rounds.  Three program     *)
(* constants are scaled into the model's number range: the horizon         *)
(* TRAJECTORY_NUM_STEPS (100000 in the source), the tick TRAJECTORY_DT     *)
(* (0.016) and big_gravity (0.000001).  Angles are counted in twelfths of  *)
(* a turn, and sin/cos are read from a table (Sin, Cos).                   *)
(*                                                                         *)
(* Specifications.  Spec: calls of the Game API in any order.  SpecLoop:   *)
(* key events and frames of the driving loop.  SpecRecalculate:            *)
(* recalculate_trajectories statement by statement.  SpecUpdate:           *)
(* Game::update stepped on constructed scenes.                             *)
(***************************************************************************)
EXTENDS Integers, Sequences, FiniteSets, TLC

\* ------------------------------------------------------------------ bounds
\* Calls of the Game API in one behaviour of Spec.
MaxCalls == 2
\* Most consecutive advance_trajectory calls of one Advance step of Spec.
MaxAdvance == 3
\* Largest argument of extend_trajectories tried by Spec.
MaxExtend == 2
\* Events (key events and frames) in one behaviour of SpecLoop.
MaxEvents == 3
\* Calls of Game::update in one behaviour of SpecUpdate.
MaxUpdates == 3
\* Presses of the time-warp keys in one behaviour of SpecWarp.
MaxPresses == 11

\* ------------------------------------------------------------- f64 numbers
\* 1.0 in fixed point.
ONE == 100

Abs(n) == IF n < 0 THEN -n ELSE n

\* Integer quotient rounded toward zero (sign-symmetric, as f64 rounding is).
Trunc(n, d) ==
    IF (n >= 0) = (d > 0) THEN Abs(n) \div Abs(d) ELSE -(Abs(n) \div Abs(d))

\* f64 `a * b`.
Mul(a, b) == Trunc(a * b, ONE)

\* f64 `a / b`.
Div(a, b) == Trunc(a * ONE, b)

\* `n as f64` for a usize n.
AsF64(n) == n * ONE

\* `x as usize` for an f64 x: truncates, and saturates at 0 for negatives.
AsUsize(x) == IF x < 0 THEN 0 ELSE x \div ONE

RECURSIVE ISqrt(_, _, _)
\* Largest r in lo..hi with r * r <= n (bisection).
ISqrt(n, lo, hi) ==
    IF lo >= hi THEN lo
    ELSE LET mid == (lo + hi + 1) \div 2
         IN IF mid * mid <= n THEN ISqrt(n, mid, hi) ELSE ISqrt(n, lo, mid - 1)

\* f64 `a.sqrt()` for a >= 0.  The search stops at 46340, the largest root
\* whose square the model checker's integers hold.
Sqrt(a) == LET n == a * ONE IN ISqrt(n, 0, IF n < 46340 THEN n ELSE 46340)

\* sin at the twelfths of a turn, in fixed point.
SinTable == <<0, 50, 87, 100, 87, 50, 0, -50, -87, -100, -87, -50>>

\* f64 `r.sin()`: the angle r (fixed point, twelfths of a turn) is reduced
\* to its whole twelfth; periodic over the unbounded angle.
Sin(r) == SinTable[((r \div ONE) % 12) + 1]

\* f64 `r.cos()` = sin(r + quarter turn).
Cos(r) == SinTable[(((r \div ONE) + 3) % 12) + 1]

\* ----------------------------------------------------------------- Vector2
Vector2(px, py) == [x |-> px, y |-> py]

add(a, b) == [x |-> a.x + b.x, y |-> a.y + b.y]

subtract(a, b) == [x |-> a.x - b.x, y |-> a.y - b.y]

scale(a, scalar) == [x |-> Mul(a.x, scalar), y |-> Mul(a.y, scalar)]

magnitude(a) == Sqrt(Mul(a.x, a.x) + Mul(a.y, a.y))

\* -------------------------------------------------------- program constants
\* Horizon H of a full recompute, in ticks (scaled down from 100000).
TRAJECTORY_NUM_STEPS == 3

\* One tick of simulated time (scaled: 0.10 model time units).
TRAJECTORY_DT == 10

\* Integrator sub-steps per tick.
TRAJECTORY_SUBSTEPS == 5

\* Game::new's gravitational constant (scaled: 10.0 in model units).
BIG_GRAVITY == 10 * ONE

\* ------------------------------------------------------- Planet and Player
\* The fields of Planet the simulation reads (name, radius, color, texture
\* and description are display data).
Planet(m, pos, vel) == [mass |-> m, position |-> pos, velocity |-> vel]

Player(pos, vel, m, rot) ==
    [position |-> pos, velocity |-> vel, mass |-> m, rotation |-> rot]

\* An empty, invalid cache: the struct literal of Game::new and of the two
\* scratch games.
EmptyCache ==
    [player_positions |-> <<>>, player_velocities |-> <<>>,
     player_rotations |-> <<>>, planet_positions |-> <<>>,
     planet_velocities |-> <<>>, is_valid |-> FALSE]

\* ------------------------------------------------------------ Game::update
\* The index pairs (i, j), i < j, in the order of the nested loops
\* (1-based here, 0-based in the source).
PlanetPairs(n) ==
    SelectSeq([k \in 1..(n * n) |-> <<((k - 1) \div n) + 1, ((k - 1) % n) + 1>>],
              LAMBDA p : p[1] < p[2])

\* Variant of planet_pair_step whose reaction on planet j is scaled by
\* planet j's own mass.
planet_pair_reaction_by_own_mass(g, acc, p) ==
    LET i == p[1]
        j == p[2]
        diff == subtract(g.planets[j].position, g.planets[i].position)
        distance == magnitude(diff)
    IN  IF distance > 0
        THEN LET force_magnitude == Div(g.big_gravity, Mul(distance, distance))
                 direction == scale(diff, Div(ONE, distance))
                 accel_i == scale(direction, Mul(force_magnitude, g.planets[j].mass))
                 accel_j == scale(direction, Mul(-force_magnitude, g.planets[j].mass))
                 acc_i == [acc EXCEPT ![i] = add(@, accel_i)]
             IN  [acc_i EXCEPT ![j] = add(@, accel_j)]
        ELSE acc

\* Body of the planet-to-planet loop for the pair p: adds the two
\* accelerations to acc when the planets are not at the same place.
planet_pair_step(g, acc, p) ==
    LET i == p[1]
        j == p[2]
        diff == subtract(g.planets[j].position, g.planets[i].position)
        distance == magnitude(diff)
    IN  IF distance > 0
        THEN LET force_magnitude == Div(g.big_gravity, Mul(distance, distance))
                 direction == scale(diff, Div(ONE, distance))
                 accel_i == scale(direction, Mul(force_magnitude, g.planets[j].mass))
                 accel_j == scale(direction, Mul(-force_magnitude, g.planets[i].mass))
                 acc_i == [acc EXCEPT ![i] = add(@, accel_i)]
             IN  [acc_i EXCEPT ![j] = add(@, accel_j)]
        ELSE acc

RECURSIVE planet_pair_loop(_, _, _, _)
\* The planet-to-planet loops from the k-th pair on.
planet_pair_loop(g, acc, pairs, k) ==
    IF k > Len(pairs) THEN acc
    ELSE planet_pair_loop(g, planet_pair_step(g, acc, pairs[k]), pairs, k + 1)

\* Variant of player_planet_step that treats a planet at the player's
\* position as one unit away along the x axis.
player_planet_softened(g, s, i) ==
    LET planet == g.planets[i]
        apart == subtract(planet.position, g.player.position)
        diff == IF magnitude(apart) > 0 THEN apart ELSE Vector2(ONE, 0)
        distance == magnitude(diff)
        force_magnitude ==
            Div(Mul(Mul(g.big_gravity, planet.mass), g.player.mass),
                Mul(distance, distance))
        direction == scale(diff, Div(ONE, distance))
        player_accel == scale(direction, Div(force_magnitude, g.player.mass))
        planet_accel == scale(direction, Div(-force_magnitude, planet.mass))
    IN  [player_acceleration |-> add(s.player_acceleration, player_accel),
         planet_accelerations |->
             [s.planet_accelerations EXCEPT ![i] = add(@, planet_accel)]]

\* Body of the player loop for planet i; s carries player_acceleration and
\* planet_accelerations.
player_planet_step(g, s, i) ==
    LET planet == g.planets[i]
        diff == subtract(planet.position, g.player.position)
        distance == magnitude(diff)
    IN  IF distance > 0
        THEN LET force_magnitude ==
                     Div(Mul(Mul(g.big_gravity, planet.mass), g.player.mass),
                         Mul(distance, distance))
                 direction == scale(diff, Div(ONE, distance))
                 player_accel == scale(direction, Div(force_magnitude, g.player.mass))
                 planet_accel == scale(direction, Div(-force_magnitude, planet.mass))
             IN  [player_acceleration |-> add(s.player_acceleration, player_accel),
                  planet_accelerations |->
                      [s.planet_accelerations EXCEPT ![i] = add(@, planet_accel)]]
        ELSE s

RECURSIVE player_planet_loop(_, _, _)
\* The player loop from planet i on.
player_planet_loop(g, s, i) ==
    IF i > Len(g.planets) THEN s
    ELSE player_planet_loop(g, player_planet_step(g, s, i), i + 1)

\* The accelerations update() computes from the positions before the step.
accelerations(g) ==
    LET zero == [i \in 1..Len(g.planets) |-> Vector2(0, 0)]
        pp == planet_pair_loop(g, zero, PlanetPairs(Len(g.planets)), 1)
    IN  player_planet_loop(
            g, [player_acceleration |-> Vector2(0, 0), planet_accelerations |-> pp], 1)

\* Variant of integrate_planet that moves the planet by its old velocity.
integrate_planet_position_first(planet, a, dt) ==
    [planet EXCEPT !.position = add(planet.position, scale(planet.velocity, dt)),
                   !.velocity = add(planet.velocity, scale(a, dt))]

\* Velocity, then position from the new velocity, of one planet.
integrate_planet(planet, a, dt) ==
    LET v == add(planet.velocity, scale(a, dt))
    IN  [planet EXCEPT !.velocity = v,
                       !.position = add(planet.position, scale(v, dt))]

\* Variant of integrate_player that also turns the player, one angle unit
\* per time unit.
integrate_player_turning(player, a, dt) ==
    LET v == add(player.velocity, scale(a, dt))
    IN  [player EXCEPT !.velocity = v,
                       !.position = add(player.position, scale(v, dt)),
                       !.rotation = @ + dt]

\* Velocity, then position from the new velocity, of the player.
integrate_player(player, a, dt) ==
    LET v == add(player.velocity, scale(a, dt))
    IN  [player EXCEPT !.velocity = v,
                       !.position = add(player.position, scale(v, dt))]

\* Game::update(dt): one integrator step.
update(g, dt) ==
    LET a == accelerations(g)
    IN  [g EXCEPT
            !.planets = [i \in 1..Len(g.planets) |->
                            integrate_planet(g.planets[i], a.planet_accelerations[i], dt)],
            !.player = integrate_player(g.player, a.player_acceleration, dt)]

RECURSIVE substep_loop(_, _, _)
\* `for _ in 0..substeps { predicted_game.update(dt / substeps as f64) }`
substep_loop(g, dt, left) ==
    IF left = 0 THEN g
    ELSE substep_loop(update(g, Div(dt, AsF64(TRAJECTORY_SUBSTEPS))), dt, left - 1)

\* One tick of prediction: TRAJECTORY_SUBSTEPS updates of dt / substeps.
tick(g) == substep_loop(g, TRAJECTORY_DT, TRAJECTORY_SUBSTEPS)

\* ---------------------------------------- Game::recalculate_trajectories
\* The scratch copy of the present state a prediction runs on.
predicted_copy(g) ==
    [big_gravity |-> g.big_gravity, planets |-> g.planets, player |-> g.player,
     cached_trajectories |-> EmptyCache]

\* Variant of record_state that forgets the planets' velocities.
record_without_planet_velocities(c, pg) ==
    [c EXCEPT
        !.player_positions = Append(@, pg.player.position),
        !.player_velocities = Append(@, pg.player.velocity),
        !.player_rotations = Append(@, pg.player.rotation),
        !.planet_positions =
            [i \in 1..Len(pg.planets) |-> Append(@[i], pg.planets[i].position)]]

\* The pushes of one iteration: the scratch state pg is recorded at the
\* back of every sequence of c.
record_state(c, pg) ==
    [c EXCEPT
        !.player_positions = Append(@, pg.player.position),
        !.player_velocities = Append(@, pg.player.velocity),
        !.player_rotations = Append(@, pg.player.rotation),
        !.planet_positions =
            [i \in 1..Len(pg.planets) |-> Append(@[i], pg.planets[i].position)],
        !.planet_velocities =
            [i \in 1..Len(pg.planets) |-> Append(@[i], pg.planets[i].velocity)]]

RECURSIVE recalculate_steps_before_recording(_, _, _)
\* Variant of recalculate_loop that advances the scratch game before it
\* records it.
recalculate_steps_before_recording(pg, c, left) ==
    IF left = 0 THEN c
    ELSE recalculate_steps_before_recording(
             tick(pg), record_state(c, tick(pg)), left - 1)

RECURSIVE recalculate_loop(_, _, _)
\* `for _ in 0..num_steps`: record, then advance the scratch game one tick.
recalculate_loop(pg, c, left) ==
    IF left = 0 THEN c
    ELSE recalculate_loop(tick(pg), record_state(c, pg), left - 1)

\* Variant of fresh_sequences that keeps filling the sequences the cache
\* already holds.
kept_sequences(g) ==
    IF Len(g.cached_trajectories.planet_positions) = Len(g.planets)
    THEN g.cached_trajectories
    ELSE [EmptyCache EXCEPT
            !.planet_positions = [i \in 1..Len(g.planets) |-> <<>>],
            !.planet_velocities = [i \in 1..Len(g.planets) |-> <<>>]]

\* The sequences a recompute starts from: one empty deque per planet.
fresh_sequences(g) ==
    [EmptyCache EXCEPT
        !.planet_positions = [i \in 1..Len(g.planets) |-> <<>>],
        !.planet_velocities = [i \in 1..Len(g.planets) |-> <<>>]]

\* Variant of recalculate_horizon that runs the first predicted tick on the
\* Game itself.
recalculate_on_live_state(g, num_steps) ==
    LET built == recalculate_loop(predicted_copy(g), fresh_sequences(g), num_steps)
        stepped == tick(predicted_copy(g))
    IN  [g EXCEPT !.planets = stepped.planets,
                  !.player = stepped.player,
                  !.cached_trajectories = [built EXCEPT !.is_valid = TRUE]]

\* The body of recalculate_trajectories for a horizon of num_steps ticks:
\* the cache is replaced by num_steps recorded states of the scratch
\* simulation and marked valid.
recalculate_horizon(g, num_steps) ==
    LET built == recalculate_loop(predicted_copy(g), fresh_sequences(g), num_steps)
    IN  [g EXCEPT !.cached_trajectories = [built EXCEPT !.is_valid = TRUE]]

\* Game::recalculate_trajectories: `let num_steps = TRAJECTORY_NUM_STEPS`.
recalculate_trajectories(g) == recalculate_horizon(g, TRAJECTORY_NUM_STEPS)

\* Variant of Game::new that returns the struct literal without the
\* recompute.
Game_new_without_recompute(planets, player) ==
    [big_gravity |-> BIG_GRAVITY, planets |-> planets, player |-> player,
     cached_trajectories |-> EmptyCache]

\* Game::new: the struct literal with an empty invalid cache, then a full
\* recompute.
Game_new(planets, player) ==
    recalculate_trajectories(
        [big_gravity |-> BIG_GRAVITY, planets |-> planets, player |-> player,
         cached_trajectories |-> EmptyCache])

\* ------------------------------------------------ Game::advance_trajectory
\* Variant of the early return that tests emptiness only.
advance_returns_on_empty_only(g) ==
    Len(g.cached_trajectories.player_positions) = 0

\* The early return of advance_trajectory.
advance_returns_early(g) ==
    \/ ~g.cached_trajectories.is_valid
    \/ Len(g.cached_trajectories.player_positions) = 0

\* Variant of advance_trajectory that leaves player_rotations unpopped.
advance_keeps_rotations(g) ==
    IF ~g.cached_trajectories.is_valid
       \/ Len(g.cached_trajectories.player_positions) = 0
    THEN g
    ELSE LET c == g.cached_trajectories
         IN  [g EXCEPT
                !.player = [@ EXCEPT !.position = c.player_positions[1],
                                     !.velocity = c.player_velocities[1]],
                !.planets = [i \in 1..Len(g.planets) |->
                                [g.planets[i] EXCEPT
                                    !.position = c.planet_positions[i][1],
                                    !.velocity = c.planet_velocities[i][1]]],
                !.cached_trajectories =
                    [c EXCEPT
                        !.player_positions = Tail(@),
                        !.player_velocities = Tail(@),
                        !.planet_positions = [i \in 1..Len(@) |-> Tail(@[i])],
                        !.planet_velocities = [i \in 1..Len(@) |-> Tail(@[i])]]]

\* Variant of advance_trajectory that marks a cache it has drained invalid.
advance_invalidates_when_drained(g) ==
    IF ~g.cached_trajectories.is_valid
       \/ Len(g.cached_trajectories.player_positions) = 0
    THEN g
    ELSE LET a == advance_keeps_rotations(g)
             drained == Len(a.cached_trajectories.player_positions) = 0
         IN  [a EXCEPT !.cached_trajectories.player_rotations = Tail(@),
                       !.cached_trajectories.is_valid = ~drained]

\* Variant of advance_trajectory that also copies the cached rotation.
advance_copies_rotation(g) ==
    IF ~g.cached_trajectories.is_valid
       \/ Len(g.cached_trajectories.player_positions) = 0
    THEN g
    ELSE LET a == advance_keeps_rotations(g)
         IN  [a EXCEPT
                !.cached_trajectories.player_rotations = Tail(@),
                !.player.rotation = g.cached_trajectories.player_rotations[1]]

\* Game::advance_trajectory: index 0 becomes the present position and
\* velocity of the player and of every planet (the rotation is not copied),
\* then index 0 is popped from every sequence.
advance_trajectory(g) ==
    IF advance_returns_early(g) THEN g
    ELSE LET c == g.cached_trajectories
         IN  [g EXCEPT
                !.player = [@ EXCEPT !.position = c.player_positions[1],
                                     !.velocity = c.player_velocities[1]],
                !.planets = [i \in 1..Len(g.planets) |->
                                [g.planets[i] EXCEPT
                                    !.position = c.planet_positions[i][1],
                                    !.velocity = c.planet_velocities[i][1]]],
                !.cached_trajectories =
                    [c EXCEPT
                        !.player_positions = Tail(@),
                        !.player_velocities = Tail(@),
                        !.player_rotations = Tail(@),
                        !.planet_positions =
                            [i \in 1..Len(c.planet_positions) |->
                                IF i <= Len(g.planets) THEN Tail(@[i]) ELSE @[i]],
                        !.planet_velocities =
                            [i \in 1..Len(c.planet_velocities) |->
                                IF i <= Len(g.planets) THEN Tail(@[i]) ELSE @[i]]]]

\* ----------------------------------------------- Game::extend_trajectories
\* Variant of extend_panics in which last_idx is computed before the
\* num_steps test.
extend_panics_on_empty(g, num_steps) ==
    Len(g.cached_trajectories.player_positions) = 0

\* extend_trajectories panics when num_steps > 0 and the cache is empty:
\* `len() - 1` underflows (a panic in a debug build; in a release build it
\* wraps to usize::MAX and the index `player_positions[last_idx]` panics).
\* Both builds panic before any field of self is written.
extend_panics(g, num_steps) ==
    /\ num_steps # 0
    /\ Len(g.cached_trajectories.player_positions) = 0

\* Variant of extend_seed that starts the scratch game from the present
\* state.
extend_seed_from_present(g) ==
    [big_gravity |-> g.big_gravity, planets |-> g.planets, player |-> g.player,
     cached_trajectories |-> EmptyCache]

\* Variant of extend_seed that takes the player as it is at present.
extend_seed_player_from_present(g) ==
    LET c == g.cached_trajectories
        last_idx == Len(c.player_positions)
    IN  [big_gravity |-> g.big_gravity,
         planets |-> [i \in 1..Len(g.planets) |->
                         [g.planets[i] EXCEPT
                             !.position = c.planet_positions[i][last_idx],
                             !.velocity = c.planet_velocities[i][last_idx]]],
         player |-> g.player,
         cached_trajectories |-> EmptyCache]

\* The scratch game of extend_trajectories: the present planets (for their
\* masses) and the player's mass, with every position, velocity and the
\* rotation taken from the last cache entry.
extend_seed(g) ==
    LET c == g.cached_trajectories
        last_idx == Len(c.player_positions)
    IN  [big_gravity |-> g.big_gravity,
         planets |-> [i \in 1..Len(g.planets) |->
                         [g.planets[i] EXCEPT
                             !.position = c.planet_positions[i][last_idx],
                             !.velocity = c.planet_velocities[i][last_idx]]],
         player |-> Player(c.player_positions[last_idx], c.player_velocities[last_idx],
                           g.player.mass, c.player_rotations[last_idx]),
         cached_trajectories |-> EmptyCache]

RECURSIVE extend_loop_two_ticks(_, _, _)
\* Variant of extend_loop that advances the scratch game two ticks per
\* appended entry.
extend_loop_two_ticks(pg, c, left) ==
    IF left = 0 THEN c
    ELSE LET next == tick(tick(pg))
         IN  extend_loop_two_ticks(next, record_state(c, next), left - 1)

RECURSIVE extend_loop(_, _, _)
\* `for _ in 0..num_steps`: advance the scratch game one tick, then append.
extend_loop(pg, c, left) ==
    IF left = 0 THEN c
    ELSE LET next == tick(pg)
         IN  extend_loop(next, record_state(c, next), left - 1)

\* Variant of extend_trajectories that drops as many entries from the front
\* as it appends.
extend_sliding(g, num_steps) ==
    IF num_steps = 0 THEN g
    ELSE LET c == extend_loop(extend_seed(g), g.cached_trajectories, num_steps)
             rest(q) == SubSeq(q, num_steps + 1, Len(q))
         IN  [g EXCEPT !.cached_trajectories =
                 [c EXCEPT
                     !.player_positions = rest(@),
                     !.player_velocities = rest(@),
                     !.player_rotations = rest(@),
                     !.planet_positions = [i \in 1..Len(@) |-> rest(@[i])],
                     !.planet_velocities = [i \in 1..Len(@) |-> rest(@[i])]]]

\* Variant of extend_trajectories whose loop runs once more than asked.
extend_one_too_many(g, num_steps) ==
    IF num_steps = 0 THEN g
    ELSE [g EXCEPT !.cached_trajectories =
                        extend_loop(extend_seed(g), g.cached_trajectories,
                                    num_steps + 1)]

\* Game::extend_trajectories(num_steps) where it does not panic.
extend_trajectories(g, num_steps) ==
    IF num_steps = 0 THEN g
    ELSE [g EXCEPT !.cached_trajectories =
                        extend_loop(extend_seed(g), g.cached_trajectories, num_steps)]

\* ------------------------------------------------ InputState::apply_to_game
\* InputState::new.
InputState_new == [rotate_left |-> FALSE, rotate_right |-> FALSE, thrust |-> FALSE]

\* `let rotation_speed = 3.0`.
rotation_speed == 3 * ONE

\* `let thrust_force = 25.0`.
thrust_force == 25 * ONE

\* Variant of apply_rotation that keeps the rotation within one turn.
apply_rotation_wrapped(input, rotation, dt) ==
    LET after_left == IF input.rotate_left
                      THEN rotation - Mul(rotation_speed, dt) ELSE rotation
        after_right == IF input.rotate_right
                       THEN after_left + Mul(rotation_speed, dt) ELSE after_left
    IN  after_right % (12 * ONE)

\* The two rotation statements of apply_to_game.
apply_rotation(input, rotation, dt) ==
    LET after_left == IF input.rotate_left
                      THEN rotation - Mul(rotation_speed, dt) ELSE rotation
    IN  IF input.rotate_right THEN after_left + Mul(rotation_speed, dt) ELSE after_left

\* The velocity after the thrust statements, from the rotation the player
\* has when they run.
apply_thrust(player, dt) ==
    LET thrust_x == Mul(Sin(player.rotation), thrust_force)
        thrust_y == Mul(-Cos(player.rotation), thrust_force)
    IN  [x |-> player.velocity.x + Mul(Div(thrust_x, player.mass), dt),
         y |-> player.velocity.y + Mul(Div(thrust_y, player.mass), dt)]

\* Variant of apply_to_game that recomputes before the thrust is applied.
apply_recalculate_before_thrust(input, g, dt) ==
    LET rotated == [g EXCEPT !.player.rotation = apply_rotation(input, @, dt)]
    IN  IF input.thrust
        THEN [recalculate_trajectories(rotated) EXCEPT
                 !.player.velocity = apply_thrust(rotated.player, dt)]
        ELSE rotated

\* Variant of apply_to_game that recomputes on every call.
apply_always_recalculates(input, g, dt) ==
    LET rotated == [g EXCEPT !.player.rotation = apply_rotation(input, @, dt)]
    IN  recalculate_trajectories(
            IF input.thrust
            THEN [rotated EXCEPT !.player.velocity = apply_thrust(rotated.player, dt)]
            ELSE rotated)

\* Variant of apply_to_game that recomputes whenever any control is held.
apply_recalculates_on_any_input(input, g, dt) ==
    LET rotated == [g EXCEPT !.player.rotation = apply_rotation(input, @, dt)]
        thrusted == IF input.thrust
                    THEN [rotated EXCEPT
                             !.player.velocity = apply_thrust(rotated.player, dt)]
                    ELSE rotated
    IN  IF input.thrust \/ input.rotate_left \/ input.rotate_right
        THEN recalculate_trajectories(thrusted)
        ELSE thrusted

\* Variant of apply_to_game in which thrust burns a hundredth of the
\* player's mass per time unit.
apply_thrust_burns_mass(input, g, dt) ==
    LET rotated == [g EXCEPT !.player.rotation = apply_rotation(input, @, dt)]
    IN  IF input.thrust
        THEN recalculate_trajectories(
                 [rotated EXCEPT
                     !.player.velocity = apply_thrust(rotated.player, dt),
                     !.player.mass = @ - dt])
        ELSE rotated

\* Variant of apply_to_game in which the thrust statements run before the
\* rotation statements.
apply_thrust_before_rotation(input, g, dt) ==
    LET rotated == [g EXCEPT !.player.rotation = apply_rotation(input, @, dt)]
    IN  IF input.thrust
        THEN recalculate_trajectories(
                 [rotated EXCEPT !.player.velocity = apply_thrust(g.player, dt)])
        ELSE rotated

\* InputState::apply_to_game(game, dt): rotation first, then thrust and a
\* full recompute when thrust is held.
apply_to_game(input, g, dt) ==
    LET rotated == [g EXCEPT !.player.rotation = apply_rotation(input, @, dt)]
    IN  IF input.thrust
        THEN recalculate_trajectories(
                 [rotated EXCEPT !.player.velocity = apply_thrust(rotated.player, dt)])
        ELSE rotated

\* ------------------------------------------- render::find_dominant_planet
\* Variant of dominant_step that remembers the position of the planet
\* counted from one.
dominant_step_one_based(g, position, s, i) ==
    LET planet == g.planets[i + 1]
        diff == subtract(planet.position, position)
        distance == magnitude(diff)
    IN  IF distance > 0
        THEN LET accel == Div(Mul(g.big_gravity, planet.mass),
                              Mul(distance, distance))
             IN  IF accel > s.max_accel
                 THEN [max_accel |-> accel, dominant_idx |-> i + 1]
                 ELSE s
        ELSE s

\* Body of the loop of find_dominant_planet for the planet of index i
\* (0-based, as in the source); s carries max_accel and dominant_idx.
dominant_step(g, position, s, i) ==
    LET planet == g.planets[i + 1]
        diff == subtract(planet.position, position)
        distance == magnitude(diff)
    IN  IF distance > 0
        THEN LET accel == Div(Mul(g.big_gravity, planet.mass),
                              Mul(distance, distance))
             IN  IF accel > s.max_accel
                 THEN [max_accel |-> accel, dominant_idx |-> i]
                 ELSE s
        ELSE s

RECURSIVE dominant_loop(_, _, _, _)
\* `for (i, planet) in game.planets.iter().enumerate()` from index i on.
dominant_loop(g, position, s, i) ==
    IF i >= Len(g.planets) THEN s
    ELSE dominant_loop(g, position, dominant_step(g, position, s, i), i + 1)

\* find_dominant_planet(game, position): the 0-based index of the planet
\* with the largest acceleration G * m / r^2 at position.
find_dominant_planet(g, position) ==
    dominant_loop(g, position, [max_accel |-> 0, dominant_idx |-> 0], 0).dominant_idx

\* -------------------------------------------------------------- the state
VARIABLES
    game,              \* the Game: big_gravity, planets, player, cached_trajectories
    input_state,       \* App::input_state
    time_accumulator,  \* App::time_accumulator
    time_warp,         \* App::time_warp
    panicked,          \* TRUE once a call has panicked (the process is gone)
    call,              \* the last call made: its name, arguments and the Game before it
    calls,             \* number of calls (Spec) or frames (SpecLoop) so far
    recalculation      \* the locals of a recalculate_trajectories in progress

vars == <<game, input_state, time_accumulator, time_warp, panicked, call, calls,
          recalculation>>

\* The locals of recalculate_trajectories: the scratch game, the five
\* sequences being filled and the loop iterations left.  NotRunning is
\* their value while no recalculate_trajectories is on the stack.
NotRunning ==
    [running |-> FALSE,
     predicted_game |-> [big_gravity |-> 0, planets |-> <<>>,
                         player |-> Player(Vector2(0, 0), Vector2(0, 0), 0, 0),
                         cached_trajectories |-> EmptyCache],
     sequences |-> EmptyCache,
     remaining |-> 0]

\* The record kept of the last call.  mid is the Game between the input
\* step and the advance loop of a frame, and pre for every other call.
CallRecord(op, n, dt, input, pre, mid) ==
    [op |-> op, n |-> n, dt |-> dt, input |-> input, pre |-> pre, mid |-> mid]

\* Scenes the external scene construction hands to Game::new: a heavy body
\* at the origin with a lighter one beside it and the player above, and a
\* single body with a moving player turned by 0.8 twelfths.
Universes ==
    { [planets |-> << Planet(4 * ONE, Vector2(0, 0), Vector2(0, 0)),
                      Planet(1 * ONE, Vector2(4 * ONE, 0), Vector2(0, 2 * ONE)) >>,
       player |-> Player(Vector2(0, -3 * ONE), Vector2(2 * ONE, 0), 1 * ONE, 0)],
      [planets |-> << Planet(2 * ONE, Vector2(3 * ONE, 4 * ONE), Vector2(0, 0)) >>,
       player |-> Player(Vector2(0, 0), Vector2(0, ONE), 5 * ONE, 80)] }

\* Elapsed real time of a frame or of an apply_to_game call: less than a
\* tick (0.04), one tick (0.10), a stall of three ticks (0.30).
FrameDts == {4, 10, 30}

\* Elapsed time handed to apply_to_game by Spec: one tick.
ApiDt == TRAJECTORY_DT

InputStates == [rotate_left : BOOLEAN, rotate_right : BOOLEAN, thrust : BOOLEAN]

\* The state after create_universe / init_game: Game::new has run, no key
\* is held, time warp 1, nothing accumulated.
Init ==
    /\ \E u \in Universes : game = Game_new(u.planets, u.player)
    /\ input_state = InputState_new
    /\ time_accumulator = 0
    /\ time_warp = ONE
    /\ panicked = FALSE
    /\ call = CallRecord("new", 0, 0, InputState_new, game, game)
    /\ calls = 0
    /\ recalculation = NotRunning

\* ------------------------------------------- Spec: calls of the Game API
RECURSIVE advance_loop(_, _)
\* `for _ in 0..steps_to_advance { game.advance_trajectory() }`
advance_loop(g, left) ==
    IF left = 0 THEN g ELSE advance_loop(advance_trajectory(g), left - 1)

\* game.recalculate_trajectories()
Recalculate ==
    /\ ~panicked /\ calls < MaxCalls
    /\ game' = recalculate_trajectories(game)
    /\ call' = CallRecord("recalculate", 0, 0, input_state, game, game)
    /\ calls' = calls + 1
    /\ UNCHANGED <<recalculation, input_state, time_accumulator, time_warp, panicked>>

\* k consecutive game.advance_trajectory() calls; call records the last.
Advance ==
    /\ ~panicked /\ calls < MaxCalls
    /\ \E k \in 1..MaxAdvance :
          LET before_last == advance_loop(game, k - 1)
          IN  /\ game' = advance_trajectory(before_last)
              /\ call' = CallRecord("advance", k, 0, input_state, before_last, before_last)
    /\ calls' = calls + 1
    /\ UNCHANGED <<recalculation, input_state, time_accumulator, time_warp, panicked>>

\* game.extend_trajectories(n)
Extend ==
    /\ ~panicked /\ calls < MaxCalls
    /\ \E n \in 0..MaxExtend :
          /\ IF extend_panics(game, n)
             THEN panicked' = TRUE /\ game' = game
             ELSE panicked' = FALSE /\ game' = extend_trajectories(game, n)
          /\ call' = CallRecord("extend", n, 0, input_state, game, game)
    /\ calls' = calls + 1
    /\ UNCHANGED <<recalculation, input_state, time_accumulator, time_warp>>

\* input.apply_to_game(&mut game, dt) for any held-key state
ApplyToGame ==
    /\ ~panicked /\ calls < MaxCalls
    /\ \E input \in InputStates :
          /\ input_state' = input
          /\ game' = apply_to_game(input, game, ApiDt)
          /\ call' = CallRecord("apply_to_game", 0, ApiDt, input, game, game)
    /\ calls' = calls + 1
    /\ UNCHANGED <<recalculation, time_accumulator, time_warp, panicked>>

Next == Recalculate \/ Advance \/ Extend \/ ApplyToGame

Spec == Init /\ [][Next]_vars

\* ------------------------------------------------ SpecLoop: the frame loop
\* Keys of WindowEvent::KeyboardInput the model presses and releases.
ControlKeys == {"KeyA", "KeyD", "Space"}

\* Keys that act on a press only.
WarpKeys == {"Period", "Comma"}

\* InputState::handle_key_event: the held flag of the key's control.
handle_key_event(input, key, pressed) ==
    CASE key = "KeyA" -> [input EXCEPT !.rotate_left = pressed]
      [] key = "KeyD" -> [input EXCEPT !.rotate_right = pressed]
      [] key = "Space" -> [input EXCEPT !.thrust = pressed]
      [] OTHER -> input

\* f64::min and f64::max.
Min(a, b) == IF a < b THEN a ELSE b

Max(a, b) == IF a > b THEN a ELSE b

\* Variant of warp_after_key without the calls of min and max.
warp_after_key_unclamped(warp, key) ==
    CASE key = "Period" -> Mul(warp, 2 * ONE)
      [] key = "Comma" -> Div(warp, 2 * ONE)
      [] OTHER -> warp

\* The time-warp arms of the key match, taken on a press.
warp_after_key(warp, key) ==
    CASE key = "Period" -> Min(Mul(warp, 2 * ONE), 256 * ONE)
      [] key = "Comma" -> Max(Div(warp, 2 * ONE), 1 * ONE)
      [] OTHER -> warp

\* WindowEvent::KeyboardInput
KeyboardInput ==
    /\ ~panicked /\ calls < MaxEvents
    /\ \E key \in ControlKeys \cup WarpKeys, pressed \in BOOLEAN :
          /\ key \in WarpKeys => pressed
          /\ input_state' = handle_key_event(input_state, key, pressed)
          /\ time_warp' = IF pressed THEN warp_after_key(time_warp, key) ELSE time_warp
    /\ calls' = calls + 1
    /\ UNCHANGED <<recalculation, game, time_accumulator, panicked, call>>

\* `(self.time_accumulator / TRAJECTORY_DT) as usize` after the frame's time
\* has been added.
steps_to_advance(acc) == AsUsize(Div(acc, TRAJECTORY_DT))

\* WindowEvent::RedrawRequested, the update part: input, accumulate, advance
\* steps_to_advance times, extend by as many, keep the remainder.  A panic
\* in extend_trajectories ends the handler where it stands: the game has
\* been advanced and the accumulator not yet reduced.
RedrawRequested ==
    /\ ~panicked /\ calls < MaxEvents
    /\ \E dt \in FrameDts :
          LET after_input == apply_to_game(input_state, game, dt)
              accumulated == time_accumulator + Mul(dt, time_warp)
              steps == steps_to_advance(accumulated)
              advanced == advance_loop(after_input, steps)
          IN  /\ call' = CallRecord("frame", steps, dt, input_state, game, after_input)
              /\ IF steps > 0
                 THEN IF extend_panics(advanced, steps)
                      THEN /\ panicked' = TRUE
                           /\ game' = advanced
                           /\ time_accumulator' = accumulated
                      ELSE /\ panicked' = FALSE
                           /\ game' = extend_trajectories(advanced, steps)
                           /\ time_accumulator' =
                                  accumulated - Mul(AsF64(steps), TRAJECTORY_DT)
                 ELSE /\ panicked' = FALSE
                      /\ game' = after_input
                      /\ time_accumulator' = accumulated
    /\ calls' = calls + 1
    /\ UNCHANGED <<recalculation, input_state, time_warp>>

NextLoop == KeyboardInput \/ RedrawRequested

SpecLoop == Init /\ [][NextLoop]_vars

\* ------------------------------- recalculate_trajectories, statement by
\* statement.  Every state between two statements is a point at which the
\* Game's fields can be looked at.
\* Entry of recalculate_trajectories: the scratch game is built from the
\* present state and the five local sequences are created empty.
BeginRecalculate ==
    /\ ~panicked /\ calls < MaxCalls
    /\ ~recalculation.running
    /\ recalculation' =
           [running |-> TRUE, predicted_game |-> predicted_copy(game),
            sequences |-> fresh_sequences(game),
            remaining |-> TRAJECTORY_NUM_STEPS]
    /\ call' = CallRecord("recalculate", 0, 0, input_state, game, game)
    /\ calls' = calls + 1
    /\ UNCHANGED <<game, input_state, time_accumulator, time_warp, panicked>>

\* Variant of RecalculateIteration that pushes into the Game's own
\* sequences.
RecalculateIterationInPlace ==
    /\ recalculation.running
    /\ recalculation.remaining > 0
    /\ recalculation' =
           [recalculation EXCEPT
               !.sequences = record_state(@, recalculation.predicted_game),
               !.predicted_game = tick(@),
               !.remaining = @ - 1]
    /\ game' = [game EXCEPT !.cached_trajectories =
                   [recalculation'.sequences EXCEPT !.is_valid = FALSE]]
    /\ UNCHANGED <<input_state, time_accumulator, time_warp, panicked, call, calls>>

\* One iteration of the loop: the scratch state is pushed onto the local
\* sequences, then the scratch game is advanced one tick.
RecalculateIteration ==
    /\ recalculation.running
    /\ recalculation.remaining > 0
    /\ recalculation' =
           [recalculation EXCEPT
               !.sequences = record_state(@, recalculation.predicted_game),
               !.predicted_game = tick(@),
               !.remaining = @ - 1]
    /\ UNCHANGED <<game, input_state, time_accumulator, time_warp, panicked,
                   call, calls>>

\* `self.cached_trajectories = CachedTrajectories { .., is_valid: true }`
\* and return.
AssignCache ==
    /\ recalculation.running
    /\ recalculation.remaining = 0
    /\ game' = [game EXCEPT !.cached_trajectories =
                   [recalculation.sequences EXCEPT !.is_valid = TRUE]]
    /\ recalculation' = NotRunning
    /\ UNCHANGED <<input_state, time_accumulator, time_warp, panicked, call, calls>>

\* Calls made while no recalculate_trajectories is on the stack.
BetweenRecalculations == ~recalculation.running /\ (Advance \/ Extend \/ ApplyToGame)

NextRecalculate ==
    BeginRecalculate \/ RecalculateIteration \/ AssignCache \/ BetweenRecalculations

SpecRecalculate == Init /\ [][NextRecalculate]_vars

\* ------------------------------------------------- Game::update on scenes
\* Scenes handed to Game::new for stepping the integrator directly.  Game::new,
\* Planet::new and Player::new take any f64 mass, so a scene with a negative
\* mass is among them; one scene has the player at a planet's position,
\* one has two planets at the same position.
Scenes ==
    { [planets |-> << Planet(4 * ONE, Vector2(0, 0), Vector2(0, 0)),
                      Planet(1 * ONE, Vector2(3 * ONE, 4 * ONE), Vector2(-ONE, 0)) >>,
       player |-> Player(Vector2(-3 * ONE, -4 * ONE), Vector2(ONE, 0), 1 * ONE, 0)],
      [planets |-> << Planet(2 * ONE, Vector2(0, 0), Vector2(0, 50)),
                      Planet(5 * ONE, Vector2(4 * ONE, 3 * ONE), Vector2(0, 0)) >>,
       player |-> Player(Vector2(8 * ONE, 6 * ONE), Vector2(0, -ONE), 2 * ONE, 0)],
      [planets |-> << Planet(1 * ONE, Vector2(3 * ONE, -4 * ONE), Vector2(50, 50)),
                      Planet(-2 * ONE, Vector2(0, 0), Vector2(0, 0)) >>,
       player |-> Player(Vector2(6 * ONE, -8 * ONE), Vector2(0, 0), 1 * ONE, 0)],
      [planets |-> << Planet(1 * ONE, Vector2(0, 0), Vector2(20, 0)),
                      Planet(1 * ONE, Vector2(0, 5 * ONE), Vector2(-20, 0)) >>,
       player |-> Player(Vector2(0, -5 * ONE), Vector2(0, 0), 5 * ONE, 0)],
      [planets |-> << Planet(2 * ONE, Vector2(0, 0), Vector2(0, 0)) >>,
       player |-> Player(Vector2(0, 10 * ONE), Vector2(ONE, 0), 1 * ONE, 0)],
      [planets |-> << Planet(1 * ONE, Vector2(0, 0), Vector2(0, 0)),
                      Planet(2 * ONE, Vector2(3 * ONE, 4 * ONE), Vector2(0, 0)),
                      Planet(4 * ONE, Vector2(6 * ONE, 8 * ONE), Vector2(0, -30)) >>,
       player |-> Player(Vector2(3 * ONE, 4 * ONE), Vector2(0, 0), 1 * ONE, 0)],
      [planets |-> << Planet(1 * ONE, Vector2(0, 0), Vector2(0, 0)),
                      Planet(2 * ONE, Vector2(6 * ONE, 8 * ONE), Vector2(0, -30)),
                      Planet(2 * ONE, Vector2(6 * ONE, 8 * ONE), Vector2(0, -30)) >>,
       player |-> Player(Vector2(-3 * ONE, -4 * ONE), Vector2(50, 0), 2 * ONE, 0)] }

\* Step sizes update is called with: the sub-step of a tick, a quarter and
\* a half time unit.
UpdateDts == {Div(TRAJECTORY_DT, AsF64(TRAJECTORY_SUBSTEPS)), 25, 50}

InitUpdate ==
    /\ \E u \in Scenes : game = Game_new(u.planets, u.player)
    /\ input_state = InputState_new
    /\ time_accumulator = 0
    /\ time_warp = ONE
    /\ panicked = FALSE
    /\ call = CallRecord("new", 0, 0, InputState_new, game, game)
    /\ calls = 0
    /\ recalculation = NotRunning

\* game.update(dt)
Update ==
    /\ calls < MaxUpdates
    /\ \E dt \in UpdateDts :
          /\ game' = update(game, dt)
          /\ call' = CallRecord("update", 0, dt, input_state, game, game)
    /\ calls' = calls + 1
    /\ UNCHANGED <<recalculation, input_state, time_accumulator, time_warp, panicked>>

NextUpdate == Update

SpecUpdate == InitUpdate /\ [][NextUpdate]_vars

\* ------------------------------------ SpecWarp: the time-warp keys alone
\* What a press of a time-warp key leaves in `call`: the key and the time
\* warp it found.
KeyRecord(key, warp) == [op |-> key, time_warp |-> warp]

\* WindowEvent::KeyboardInput for a press of the given time-warp key.
WarpKeyPressed(key) ==
    /\ ~panicked /\ calls < MaxPresses
    /\ input_state' = handle_key_event(input_state, key, TRUE)
    /\ time_warp' = warp_after_key(time_warp, key)
    /\ call' = KeyRecord(key, time_warp)
    /\ calls' = calls + 1
    /\ UNCHANGED <<recalculation, game, time_accumulator, panicked>>

\* A press of Period.
SpeedUp == WarpKeyPressed("Period")

\* A press of Comma.
SlowDown == WarpKeyPressed("Comma")

NextWarp == SpeedUp \/ SlowDown

SpecWarp == Init /\ [][NextWarp]_vars

\* ---------------------------------------------------------------- claims
\* The lengths of all sequences of a cache.
SequenceLengths(c) ==
    {Len(c.player_positions), Len(c.player_velocities), Len(c.player_rotations)}
        \cup {Len(c.planet_positions[i]) : i \in 1..Len(c.planet_positions)}
        \cup {Len(c.planet_velocities[i]) : i \in 1..Len(c.planet_velocities)}

\* The cache c with index 0 removed from every sequence.
Popped(c) ==
    [c EXCEPT
        !.player_positions = Tail(@),
        !.player_velocities = Tail(@),
        !.player_rotations = Tail(@),
        !.planet_positions = [i \in 1..Len(@) |-> Tail(@[i])],
        !.planet_velocities = [i \in 1..Len(@) |-> Tail(@[i])]]

\* The last call was advance_trajectory on a valid, non-empty cache.
AdvancedFromNonEmpty ==
    /\ call.op = "advance"
    /\ call.pre.cached_trajectories.is_valid
    /\ Len(call.pre.cached_trajectories.player_positions) > 0

\* C1 (drain correctness): after one advance_trajectory on a valid non-empty
\* cache, the present position and velocity of the player and of every
\* planet are the values cache index 0 held before the call, and every cache
\* sequence is the old one without its first entry, order kept.
C1_DrainCorrectness ==
    AdvancedFromNonEmpty =>
        LET c == call.pre.cached_trajectories
        IN  /\ game.player.position = c.player_positions[1]
            /\ game.player.velocity = c.player_velocities[1]
            /\ \A i \in 1..Len(game.planets) :
                  /\ game.planets[i].position = c.planet_positions[i][1]
                  /\ game.planets[i].velocity = c.planet_velocities[i][1]
            /\ game.cached_trajectories = Popped(c)
            /\ SequenceLengths(game.cached_trajectories)
                   = {Len(c.player_positions) - 1}

\* C1 witness: an advance that moved the player to a cached position it was
\* not at, leaving a shorter non-empty cache.
C1_Witness ==
    /\ AdvancedFromNonEmpty
    /\ game.player.position # call.pre.player.position
    /\ game.player.position = call.pre.cached_trajectories.player_positions[1]
    /\ Len(game.cached_trajectories.player_positions) > 0

\* C2 (cache length invariant): between calls of recalculate_trajectories,
\* advance_trajectory and extend_trajectories, all cache sequences have one
\* common length, and there is one positions and one velocities sequence
\* per planet.
C2_EqualLengths ==
    /\ Cardinality(SequenceLengths(game.cached_trajectories)) = 1
    /\ Len(game.cached_trajectories.planet_positions) = Len(game.planets)
    /\ Len(game.cached_trajectories.planet_velocities) = Len(game.planets)

\* C2 witness: two planets, and a cache that an advance shortened and an
\* extension then lengthened to a length other than the horizon.
C2_Witness ==
    /\ call.op = "extend"
    /\ call.n > 0
    /\ ~panicked
    /\ Len(game.planets) = 2
    /\ Len(call.pre.cached_trajectories.player_positions) < TRAJECTORY_NUM_STEPS
    /\ Len(game.cached_trajectories.player_positions) # TRAJECTORY_NUM_STEPS
    /\ C2_EqualLengths

\* The sequences of a cache, without its validity flag.
Sequences_of(c) ==
    <<c.player_positions, c.player_velocities, c.player_rotations,
      c.planet_positions, c.planet_velocities>>

\* The cache of g is what a full recompute of horizon h from g's present
\* state holds.
IsRecomputeOf(g, h) ==
    Sequences_of(g.cached_trajectories)
        = Sequences_of(recalculate_horizon(g, h).cached_trajectories)

\* The last call was an extend_trajectories(n), n >= 1, on a cache of length
\* L >= 1 that is a full recompute from the present state.
ExtendedARecompute ==
    /\ call.op = "extend"
    /\ call.n >= 1
    /\ Len(call.pre.cached_trajectories.player_positions) >= 1
    /\ IsRecomputeOf(call.pre, Len(call.pre.cached_trajectories.player_positions))

\* C3 (continuity law): extend_trajectories(n) on a cache of length L >= 1
\* that a full recompute produced from the present state leaves, in every
\* sequence, the entries of a full recompute of horizon L + n from that
\* present state; in particular the appended entries [L, L+n) are those of
\* the longer recompute.
C3_Continuity ==
    ExtendedARecompute =>
        LET L == Len(call.pre.cached_trajectories.player_positions)
            longer == recalculate_horizon(call.pre, L + call.n).cached_trajectories
            c == game.cached_trajectories
        IN  /\ ~panicked
            /\ Len(c.player_positions) = L + call.n
            /\ \A k \in (L + 1)..(L + call.n) :
                  /\ c.player_positions[k] = longer.player_positions[k]
                  /\ c.player_velocities[k] = longer.player_velocities[k]
                  /\ c.player_rotations[k] = longer.player_rotations[k]
                  /\ \A i \in 1..Len(game.planets) :
                        /\ c.planet_positions[i][k] = longer.planet_positions[i][k]
                        /\ c.planet_velocities[i][k] = longer.planet_velocities[i][k]
            /\ IsRecomputeOf(game, L + call.n)

\* C3 witness: two entries were appended to a recomputed cache, and they
\* differ from each other and from the former tail (the bodies move).
C3_Witness ==
    /\ ExtendedARecompute
    /\ call.n = 2
    /\ LET c == game.cached_trajectories
           L == Len(call.pre.cached_trajectories.player_positions)
       IN  /\ c.player_positions[L] # c.player_positions[L + 1]
           /\ c.player_positions[L + 1] # c.player_positions[L + 2]
           /\ c.planet_positions[1][L] # c.planet_positions[1][L + 1]

\* The position and velocity of the player and of every planet of g.
Kinematics(g) ==
    <<g.player.position, g.player.velocity,
      [i \in 1..Len(g.planets) |-> g.planets[i].position],
      [i \in 1..Len(g.planets) |-> g.planets[i].velocity]>>

\* What cache index 0 of g holds for the player and every planet.
CacheFront(g) ==
    LET c == g.cached_trajectories
    IN  <<c.player_positions[1], c.player_velocities[1],
          [i \in 1..Len(g.planets) |-> c.planet_positions[i][1]],
          [i \in 1..Len(g.planets) |-> c.planet_velocities[i][1]]>>

\* C4 (index 0 is one tick ahead), as claimed: in every state with a valid
\* non-empty cache, index 0 holds the present state advanced by one tick.
C4_FrontIsOneTickAhead ==
    (/\ game.cached_trajectories.is_valid
     /\ Len(game.cached_trajectories.player_positions) > 0)
        => CacheFront(game) = Kinematics(tick(game))

\* C5 (extend on an empty cache is a guarded no-op), as claimed: an
\* extend_trajectories(n), n >= 1, on an empty cache returns normally and
\* leaves the present state and the cache unchanged.
C5_ExtendOnEmptyIsNoOp ==
    (/\ call.op = "extend"
     /\ call.n >= 1
     /\ Len(call.pre.cached_trajectories.player_positions) = 0)
        => (~panicked /\ game = call.pre)

\* The Game g with its cache marked invalid.
Invalidated(g) == [g EXCEPT !.cached_trajectories.is_valid = FALSE]

\* The struct literal of Game::new for g's bodies: an empty invalid cache.
Unpopulated(g) == [g EXCEPT !.cached_trajectories = EmptyCache]

\* C6 (advance on an invalid or empty cache is a no-op): an
\* advance_trajectory whose cache is invalid, or valid and empty, changes
\* neither the present state nor any cache sequence nor the validity flag,
\* and reads no index.  The invalid cases are the present Game with its
\* flag cleared and the unpopulated Game of the constructor.
C6_AdvanceNoOp ==
    /\ (/\ call.op = "advance"
        /\ \/ ~call.pre.cached_trajectories.is_valid
           \/ Len(call.pre.cached_trajectories.player_positions) = 0)
           => (game = call.pre /\ ~panicked)
    /\ advance_trajectory(Invalidated(game)) = Invalidated(game)
    /\ advance_trajectory(Unpopulated(game)) = Unpopulated(game)

\* C6 witness: advance_trajectory was called on a valid cache that earlier
\* advances had drained to length 0.
C6_Witness ==
    /\ call.op = "advance"
    /\ call.pre.cached_trajectories.is_valid
    /\ Len(call.pre.cached_trajectories.player_positions) = 0
    /\ Len(call.pre.cached_trajectories.planet_positions) = Len(game.planets)
    /\ game = call.pre

\* C7 (constant window length per frame), as claimed: a frame in which
\* k >= 1 ticks elapse, k below or above the horizon, completes without a
\* crash and leaves every cache sequence at the length H it had before the
\* frame.
C7_FrameKeepsWindow ==
    (/\ call.op = "frame"
     /\ call.n >= 1
     /\ SequenceLengths(call.pre.cached_trajectories) = {TRAJECTORY_NUM_STEPS})
        => (/\ ~panicked
            /\ SequenceLengths(game.cached_trajectories) = {TRAJECTORY_NUM_STEPS})

\* The last call was apply_to_game with thrust held.
AppliedThrust == call.op = "apply_to_game" /\ call.input.thrust

\* C8 (thrust): apply_to_game with thrust held for dt adds (F/mass)*dt times
\* (sin(rotation), -cos(rotation)), F = 25, to the present player velocity,
\* rotation being the player's rotation when the thrust statements run;
\* the present player position and all planet state are unchanged; the
\* cache is valid, of length H, and equal to a full recompute from the
\* present state after the thrust.
C8_Thrust ==
    AppliedThrust =>
        LET per_dt == Mul(Div(25 * ONE, call.pre.player.mass), call.dt)
            dv == subtract(game.player.velocity, call.pre.player.velocity)
        IN  /\ dv.x = Mul(per_dt, Sin(game.player.rotation))
            /\ dv.y = Mul(per_dt, -Cos(game.player.rotation))
            /\ game.player.position = call.pre.player.position
            /\ game.player.mass = call.pre.player.mass
            /\ game.planets = call.pre.planets
            /\ game.cached_trajectories.is_valid
            /\ SequenceLengths(game.cached_trajectories) = {TRAJECTORY_NUM_STEPS}
            /\ game.cached_trajectories
                   = recalculate_trajectories(Unpopulated(game)).cached_trajectories

\* C8 witness: a thrust that changed both velocity components and replaced
\* a cache that earlier calls had shortened.
C8_Witness ==
    /\ AppliedThrust
    /\ game.player.velocity.x # call.pre.player.velocity.x
    /\ game.player.velocity.y # call.pre.player.velocity.y
    /\ Len(call.pre.cached_trajectories.player_positions) < TRAJECTORY_NUM_STEPS
    /\ game.cached_trajectories # call.pre.cached_trajectories

\* The last call was apply_to_game without thrust.
AppliedWithoutThrust == call.op = "apply_to_game" /\ ~call.input.thrust

\* C9 (rotation independence): an apply_to_game call without thrust, with
\* rotate_left and/or rotate_right held or not, leaves the validity flag,
\* every cached position, velocity and rotation, and the present positions
\* and velocities unchanged; of the whole Game only the present player
\* rotation may differ.
C9_RotationIndependence ==
    AppliedWithoutThrust =>
        /\ game.cached_trajectories = call.pre.cached_trajectories
        /\ Kinematics(game) = Kinematics(call.pre)
        /\ game = [call.pre EXCEPT !.player.rotation = game.player.rotation]

\* C9 witness: a rotate-only call that turned the player away from the
\* rotation the cache recorded.
C9_Witness ==
    /\ AppliedWithoutThrust
    /\ call.input.rotate_left # call.input.rotate_right
    /\ game.player.rotation # call.pre.player.rotation
    /\ Len(game.cached_trajectories.player_rotations) > 0
    /\ game.cached_trajectories.player_rotations[1] # game.player.rotation

\* The last call ran a full recompute: recalculate_trajectories itself, or
\* apply_to_game with thrust held.
Recomputed == call.op = "recalculate" \/ AppliedThrust

\* C10 (determinism): the cache a full recompute leaves is a function of
\* the present state alone.  Recomputing from the present Game, whatever its
\* cache holds, gives the cache that a Game with the same planets, player
\* and gravitational constant and an empty cache gives; and the cache the
\* last recompute left is that same cache.
C10_Determinism ==
    /\ recalculate_trajectories(game).cached_trajectories
           = recalculate_trajectories(Unpopulated(game)).cached_trajectories
    /\ Recomputed =>
           game.cached_trajectories
               = recalculate_trajectories(Unpopulated(game)).cached_trajectories

\* C10 witness: recalculate_trajectories ran on a Game whose cache differed
\* from the one it produced (shorter or longer than the horizon).
C10_Witness ==
    /\ call.op = "recalculate"
    /\ Len(call.pre.cached_trajectories.player_positions) # TRAJECTORY_NUM_STEPS
    /\ game.cached_trajectories # call.pre.cached_trajectories
    /\ Kinematics(game) = Kinematics(call.pre)

\* C11 (validity state machine): the constructor's struct literal holds an
\* empty invalid cache and the first full recompute makes it valid; from
\* then on the cache is valid in every state, whatever advance_trajectory,
\* extend_trajectories and rotation or thrust input do; and no operation
\* other than a full recompute turns an invalid flag valid.
C11_ValidityStateMachine ==
    /\ ~Unpopulated(game).cached_trajectories.is_valid
    /\ SequenceLengths(Unpopulated(game).cached_trajectories) = {0}
    /\ recalculate_trajectories(Unpopulated(game)).cached_trajectories.is_valid
    /\ game.cached_trajectories.is_valid
    /\ call.pre.cached_trajectories.is_valid
    /\ ~advance_trajectory(Invalidated(game)).cached_trajectories.is_valid
    /\ \A input \in InputStates :
          apply_to_game(input, Invalidated(game), ApiDt).cached_trajectories.is_valid
              = input.thrust
    /\ \A n \in 0..MaxExtend :
          ~extend_panics(game, n) =>
              ~extend_trajectories(Invalidated(game), n).cached_trajectories.is_valid

\* C11 witness: advances drained the cache to length 0 and it is still
\* valid.
C11_Witness ==
    /\ call.op = "advance"
    /\ Len(call.pre.cached_trajectories.player_positions) = 1
    /\ Len(game.cached_trajectories.player_positions) = 0
    /\ game.cached_trajectories.is_valid

\* C12 (construction): after Game::new(planets, player) the present state
\* is the planets and the player passed in, the gravitational constant is
\* Game::new's, the cache is valid and every cache sequence has exactly H
\* entries, one positions and one velocities sequence per planet.
C12_Construction ==
    /\ \A u \in Universes :
          /\ Game_new(u.planets, u.player).planets = u.planets
          /\ Game_new(u.planets, u.player).player = u.player
    /\ call.op = "new" =>
        /\ \E u \in Universes : game = Game_new(u.planets, u.player)
        /\ game.big_gravity = BIG_GRAVITY
        /\ game.cached_trajectories.is_valid
        /\ SequenceLengths(game.cached_trajectories) = {TRAJECTORY_NUM_STEPS}
        /\ Len(game.cached_trajectories.planet_positions) = Len(game.planets)
        /\ Len(game.cached_trajectories.planet_velocities) = Len(game.planets)

\* C12 witness: a freshly constructed two-planet Game whose prediction
\* moves the bodies away from where they were handed in.
C12_Witness ==
    /\ call.op = "new"
    /\ Len(game.planets) = 2
    /\ game.cached_trajectories.player_positions[TRAJECTORY_NUM_STEPS]
           # game.player.position
    /\ game.cached_trajectories.planet_positions[2][TRAJECTORY_NUM_STEPS]
           # game.planets[2].position

\* C13 (advance never writes the rotation): after advance_trajectory the
\* present rotation is the one before the call, also when the cached
\* rotation at index 0 differs from it, and the cached rotation at index 0
\* has been removed.
C13_AdvanceKeepsRotation ==
    call.op = "advance" =>
        /\ game.player.rotation = call.pre.player.rotation
        /\ AdvancedFromNonEmpty =>
               game.cached_trajectories.player_rotations
                   = Tail(call.pre.cached_trajectories.player_rotations)

\* C13 witness: an advance on a cache whose rotation at index 0 was not the
\* present rotation (the player had turned since the recompute).
C13_Witness ==
    /\ AdvancedFromNonEmpty
    /\ call.pre.cached_trajectories.player_rotations[1] # call.pre.player.rotation
    /\ Len(game.cached_trajectories.player_rotations)
           = Len(call.pre.cached_trajectories.player_rotations) - 1

\* One tick spelled out: S = 5 calls of update with the step dt / S.
FiveUpdates(g) ==
    LET sub_dt == Div(TRAJECTORY_DT, AsF64(5))
    IN  update(update(update(update(update(g, sub_dt), sub_dt), sub_dt), sub_dt),
               sub_dt)

RECURSIVE AfterTicks(_, _)
\* The present state of g advanced by k ticks.
AfterTicks(g, k) == IF k = 0 THEN g ELSE AfterTicks(FiveUpdates(g), k - 1)

\* What the cache c holds at index k (0-based) for a Game of n planets:
\* player position, velocity and rotation, planet positions and velocities.
CacheAt(c, n, k) ==
    <<c.player_positions[k + 1], c.player_velocities[k + 1],
      c.player_rotations[k + 1],
      [i \in 1..n |-> c.planet_positions[i][k + 1]],
      [i \in 1..n |-> c.planet_velocities[i][k + 1]]>>

\* The present state of g in the layout of CacheAt.
PresentState(g) ==
    <<g.player.position, g.player.velocity, g.player.rotation,
      [i \in 1..Len(g.planets) |-> g.planets[i].position],
      [i \in 1..Len(g.planets) |-> g.planets[i].velocity]>>

\* The cache c holds, at every index k in [0, H), the present state of g
\* advanced by exactly k ticks.
RecordsBeforeStepping(c, g) ==
    \A k \in 0..(TRAJECTORY_NUM_STEPS - 1) :
        CacheAt(c, Len(g.planets), k) = PresentState(AfterTicks(g, k))

\* C19 (a full recompute records before stepping): after
\* recalculate_trajectories, run by Game::new, directly or by thrust, cache
\* index 0 is the present state at the time of the call and index k, for
\* every k in [0, H), is that state advanced by exactly k ticks of 5 update
\* calls with step dt / 5; the same holds for a recompute from any
\* reachable state.
C19_RecordsBeforeStepping ==
    /\ RecordsBeforeStepping(
           recalculate_trajectories(game).cached_trajectories, game)
    /\ (call.op = "new" \/ Recomputed) =>
           /\ RecordsBeforeStepping(game.cached_trajectories, game)
           /\ CacheAt(game.cached_trajectories, Len(game.planets), 0)
                  = PresentState(game)

\* C19 witness: a thrust-triggered recompute whose recorded states differ
\* from tick to tick and start at the present state.
C19_Witness ==
    /\ AppliedThrust
    /\ game.player.velocity # call.pre.player.velocity
    /\ game.cached_trajectories.player_positions[1] = game.player.position
    /\ game.cached_trajectories.player_positions[2] # game.player.position
    /\ game.cached_trajectories.player_positions[TRAJECTORY_NUM_STEPS]
           # game.cached_trajectories.player_positions[2]

\* C20 (tick progress in the driving loop), as claimed: a frame that
\* completes with k >= 1 elapsed ticks leaves the present positions and
\* velocities at the state they had after the frame's input was applied,
\* advanced by exactly k ticks, thrust frames included.
C20_FrameAdvancesKTicks ==
    (call.op = "frame" /\ call.n >= 1 /\ ~panicked) =>
        Kinematics(game) = Kinematics(AfterTicks(call.mid, call.n))

\* The entries of every sequence of c from index n (0-based) on.
DroppedFront(c, n) ==
    LET rest(q) == SubSeq(q, n + 1, Len(q))
    IN  <<rest(c.player_positions), rest(c.player_velocities),
          rest(c.player_rotations),
          [i \in 1..Len(c.planet_positions) |-> rest(c.planet_positions[i])],
          [i \in 1..Len(c.planet_velocities) |-> rest(c.planet_velocities[i])]>>

\* The first m entries of every sequence of c.
KeptFront(c, m) ==
    LET first(q) == SubSeq(q, 1, m)
    IN  <<first(c.player_positions), first(c.player_velocities),
          first(c.player_rotations),
          [i \in 1..Len(c.planet_positions) |-> first(c.planet_positions[i])],
          [i \in 1..Len(c.planet_velocities) |-> first(c.planet_velocities[i])]>>

\* C15 (a full recompute is triggered only by thrust): in a frame of the
\* driving loop the cache after the input step is a full recompute from the
\* post-thrust present state when thrust is held, and is the cache the
\* frame started with, entry for entry, when it is not (rotation input
\* included); the advance and extend calls of the frame never rebuild it:
\* the entries they leave in front are the ones the input step left,
\* minus the ticks consumed.
C15_RecomputeOnlyByThrust ==
    call.op = "frame" =>
        /\ call.input.thrust =>
               /\ IsRecomputeOf(call.mid, TRAJECTORY_NUM_STEPS)
               /\ call.mid.cached_trajectories.is_valid
        /\ ~call.input.thrust =>
               call.mid.cached_trajectories = call.pre.cached_trajectories
        /\ ~panicked =>
               LET L == Len(call.mid.cached_trajectories.player_positions)
               IN  /\ call.n <= L
                   /\ KeptFront(game.cached_trajectories, L - call.n)
                          = DroppedFront(call.mid.cached_trajectories, call.n)

\* C15 witness: a frame with a rotation key held and no thrust, in which a
\* recompute would have changed the cache (the cache is not the recompute
\* of the rotated present state) and in which ticks elapsed.
C15_Witness ==
    /\ call.op = "frame"
    /\ ~call.input.thrust
    /\ ~panicked
    /\ call.n >= 1
    /\ call.mid.player.rotation # call.pre.player.rotation
    /\ ~IsRecomputeOf(call.mid, TRAJECTORY_NUM_STEPS)
    /\ call.mid.cached_trajectories = call.pre.cached_trajectories

\* C17 (horizon bound), as claimed: in every state reachable by Game::new
\* and any calls of apply_to_game, advance_trajectory and
\* extend_trajectories(n), every cache sequence has length at most H.
C17_HorizonBound ==
    \A len \in SequenceLengths(game.cached_trajectories) :
        len <= TRAJECTORY_NUM_STEPS

\* C17 (horizon bound), amended: Game::new and every full recompute leave
\* every sequence at length exactly H; advance_trajectory and apply_to_game
\* without thrust never lengthen a sequence; extend_trajectories(n) that
\* returns lengthens every sequence by exactly n, so the lengths stay at
\* most H exactly when n is at most H minus the length before the call
\* (as after n advance calls on a cache of length at most H).
C17_HorizonBoundInContract ==
    LET before == SequenceLengths(call.pre.cached_trajectories)
        after == SequenceLengths(game.cached_trajectories)
    IN  /\ (call.op = "new" \/ Recomputed) => after = {TRAJECTORY_NUM_STEPS}
        /\ (call.op = "advance" \/ AppliedWithoutThrust) =>
               \A a \in after : \A b \in before : a <= b
        /\ (call.op = "extend" /\ ~panicked) =>
               /\ after = {b + call.n : b \in before}
               /\ (\A b \in before : call.n <= TRAJECTORY_NUM_STEPS - b)
                      <=> (\A a \in after : a <= TRAJECTORY_NUM_STEPS)

\* C17 witness: an extend_trajectories(n), n >= 1, after advances had
\* shortened the cache, bringing every sequence back to length H.
C17_Witness ==
    /\ call.op = "extend"
    /\ call.n >= 1
    /\ ~panicked
    /\ SequenceLengths(call.pre.cached_trajectories)
           = {TRAJECTORY_NUM_STEPS - call.n}
    /\ SequenceLengths(game.cached_trajectories) = {TRAJECTORY_NUM_STEPS}

\* The f64 product a * b is the real product (nothing is rounded away).
MulExact(a, b) == (a * b) % ONE = 0

\* The f64 quotient a / b is the real quotient.
DivExact(a, b) == b # 0 /\ (a * ONE) % Abs(b) = 0

\* scale(v, s) is exact in both components.
ScaleExact(v, s) == MulExact(v.x, s) /\ MulExact(v.y, s)

\* magnitude(diff), distance * distance, 1.0 / distance and the direction
\* vector are computed without rounding (trivially so when the distance is
\* zero and the interaction is skipped).
DirectionExact(diff) ==
    LET sq == Mul(diff.x, diff.x) + Mul(diff.y, diff.y)
        distance == magnitude(diff)
    IN  /\ MulExact(diff.x, diff.x)
        /\ MulExact(diff.y, diff.y)
        /\ distance * distance = sq * ONE
        /\ distance > 0 =>
               /\ MulExact(distance, distance)
               /\ DivExact(ONE, distance)
               /\ ScaleExact(diff, Div(ONE, distance))

\* The planet-to-planet interaction of planets i and j is computed without
\* rounding.
PairExact(g, i, j) ==
    LET diff == subtract(g.planets[j].position, g.planets[i].position)
        distance == magnitude(diff)
        dd == Mul(distance, distance)
        fm == Div(g.big_gravity, dd)
        direction == scale(diff, Div(ONE, distance))
    IN  /\ DirectionExact(diff)
        /\ distance > 0 =>
               /\ DivExact(g.big_gravity, dd)
               /\ MulExact(fm, g.planets[j].mass)
               /\ MulExact(fm, g.planets[i].mass)
               /\ ScaleExact(direction, Mul(fm, g.planets[j].mass))
               /\ ScaleExact(direction, Mul(-fm, g.planets[i].mass))

\* The player-to-planet interaction with planet i is computed without
\* rounding.
PlayerExact(g, i) ==
    LET planet == g.planets[i]
        diff == subtract(planet.position, g.player.position)
        distance == magnitude(diff)
        dd == Mul(distance, distance)
        gm == Mul(g.big_gravity, planet.mass)
        gmm == Mul(gm, g.player.mass)
        force == Div(gmm, dd)
        direction == scale(diff, Div(ONE, distance))
    IN  /\ DirectionExact(diff)
        /\ distance > 0 =>
               /\ MulExact(g.big_gravity, planet.mass)
               /\ MulExact(gm, g.player.mass)
               /\ DivExact(gmm, dd)
               /\ DivExact(force, g.player.mass)
               /\ DivExact(force, planet.mass)
               /\ ScaleExact(direction, Div(force, g.player.mass))
               /\ ScaleExact(direction, Div(-force, planet.mass))

\* Every operation of update(dt) on g that feeds a velocity is computed
\* without rounding: all interactions and the products acceleration * dt.
ExactStep(g, dt) ==
    LET n == Len(g.planets)
        a == accelerations(g)
    IN  /\ \A i \in 1..n : \A j \in (i + 1)..n : PairExact(g, i, j)
        /\ \A i \in 1..n : PlayerExact(g, i)
        /\ \A i \in 1..n : ScaleExact(a.planet_accelerations[i], dt)
        /\ ScaleExact(a.player_acceleration, dt)

RECURSIVE PlanetMomentum(_, _)
\* Sum of mass * velocity over the planets i..Len (in units of 1/ONE^2).
PlanetMomentum(g, i) ==
    IF i > Len(g.planets) THEN Vector2(0, 0)
    ELSE add([x |-> g.planets[i].mass * g.planets[i].velocity.x,
              y |-> g.planets[i].mass * g.planets[i].velocity.y],
             PlanetMomentum(g, i + 1))

\* Total momentum of all planets and the player.
Momentum(g) ==
    add(PlanetMomentum(g, 1),
        [x |-> g.player.mass * g.player.velocity.x,
         y |-> g.player.mass * g.player.velocity.y])

\* C14 (momentum conservation): one integrator step update(dt) in which no
\* operation rounds leaves the total momentum, the sum of mass times
\* velocity over all planets and the player, unchanged.
C14_MomentumConservation ==
    (call.op = "update" /\ ExactStep(call.pre, call.dt)) =>
        Momentum(game) = Momentum(call.pre)

\* C14 witness: an exact step on a scene of two planets of different mass
\* and the player in which every body's velocity changed.
C14_Witness ==
    /\ call.op = "update"
    /\ ExactStep(call.pre, call.dt)
    /\ Len(game.planets) >= 2
    /\ game.planets[1].mass # game.planets[2].mass
    /\ \A i \in 1..Len(game.planets) :
          game.planets[i].velocity # call.pre.planets[i].velocity
    /\ game.player.velocity # call.pre.player.velocity

\* C16 (non-positive mass is rejected at construction), as claimed: no Game
\* whose present state holds a planet or a player of zero or negative mass
\* is ever constructed or stepped.
C16_NoNonPositiveMass ==
    /\ game.player.mass > 0
    /\ \A i \in 1..Len(game.planets) : game.planets[i].mass > 0

\* A cache every sequence of which has the same length.
Complete(c) == Cardinality(SequenceLengths(c)) = 1

\* C18 (atomic swap on recompute): at every point of a
\* recalculate_trajectories the Game's cache is whole: while the new
\* sequences are being built it is, entry for entry and flag included, the
\* cache the call started with; once the call has returned it is the
\* complete new cache, H entries in every sequence and valid; at no point
\* does it hold sequences of differing length or a partly filled cache.
C18_AtomicSwap ==
    /\ Complete(game.cached_trajectories)
    /\ Len(game.cached_trajectories.planet_positions) = Len(game.planets)
    /\ recalculation.running =>
           /\ game = call.pre
           /\ SequenceLengths(recalculation.sequences)
                  = {TRAJECTORY_NUM_STEPS - recalculation.remaining}
    /\ (call.op = "recalculate" /\ ~recalculation.running) =>
           /\ game = recalculate_trajectories(call.pre)
           /\ SequenceLengths(game.cached_trajectories) = {TRAJECTORY_NUM_STEPS}
           /\ game.cached_trajectories.is_valid

\* C18 witness: a recompute is half way through its loop (some states pushed,
\* some to go) on a Game whose cache is shorter than the horizon and differs
\* from what is being built.
C18_Witness ==
    /\ recalculation.running
    /\ recalculation.remaining > 0
    /\ recalculation.remaining < TRAJECTORY_NUM_STEPS
    /\ Len(game.cached_trajectories.player_positions) < TRAJECTORY_NUM_STEPS
    /\ Len(game.cached_trajectories.player_positions) > 0
    /\ recalculation.sequences.player_positions[1]
           # game.cached_trajectories.player_positions[1]

\* C21 (semi-implicit Euler order): update(dt) computes every acceleration
\* from the positions before the step; then each planet and the player get
\* v' = v + a * dt and x' = x + v' * dt, the position from the velocity
\* already updated, with the one dt of the call for every entity.
C21_SemiImplicitEuler ==
    call.op = "update" =>
        LET a == accelerations(call.pre)
            dt == call.dt
        IN  /\ \A i \in 1..Len(game.planets) :
                  /\ game.planets[i].velocity
                         = add(call.pre.planets[i].velocity,
                               scale(a.planet_accelerations[i], dt))
                  /\ game.planets[i].position
                         = add(call.pre.planets[i].position,
                               scale(game.planets[i].velocity, dt))
            /\ game.player.velocity
                   = add(call.pre.player.velocity, scale(a.player_acceleration, dt))
            /\ game.player.position
                   = add(call.pre.player.position, scale(game.player.velocity, dt))

\* C21 witness: an update in which a planet and the player were accelerated
\* enough that moving by the old velocity would have put them elsewhere.
C21_Witness ==
    /\ call.op = "update"
    /\ \E i \in 1..Len(game.planets) :
          game.planets[i].position
              # add(call.pre.planets[i].position,
                    scale(call.pre.planets[i].velocity, call.dt))
    /\ game.player.position
           # add(call.pre.player.position,
                 scale(call.pre.player.velocity, call.dt))

\* The rotation entries extend_trajectories(n) appended to the cache of
\* the last call.
AppendedRotations ==
    SubSeq(game.cached_trajectories.player_rotations,
           Len(call.pre.cached_trajectories.player_rotations) + 1,
           Len(game.cached_trajectories.player_rotations))

\* C22 (the integrator never turns the player): update(dt) leaves the
\* player rotation as it was; so every rotation entry a full recompute
\* writes is the present rotation at the time of the recompute, and every
\* rotation entry extend_trajectories appends is the rotation of the last
\* cache entry before the call.
C22_IntegratorKeepsRotation ==
    /\ \A dt \in UpdateDts : update(game, dt).player.rotation = game.player.rotation
    /\ tick(game).player.rotation = game.player.rotation
    /\ (call.op = "new" \/ Recomputed) =>
           \A k \in 1..Len(game.cached_trajectories.player_rotations) :
               game.cached_trajectories.player_rotations[k] = game.player.rotation
    /\ (call.op = "extend" /\ ~panicked /\ call.n >= 1) =>
           LET before == call.pre.cached_trajectories.player_rotations
           IN  /\ Len(AppendedRotations) = call.n
               /\ \A k \in 1..Len(AppendedRotations) :
                      AppendedRotations[k] = before[Len(before)]

\* C22 witness: extend_trajectories appended rotation entries after the
\* player had turned, so the last cached rotation was not the present one.
C22_Witness ==
    /\ call.op = "extend"
    /\ call.n >= 1
    /\ ~panicked
    /\ Len(AppendedRotations) = call.n
    /\ AppendedRotations[1] # game.player.rotation

\* The Game g without its planet j.
Without(g, j) ==
    [g EXCEPT !.planets =
        [k \in 1..(Len(g.planets) - 1) |->
            IF k < j THEN g.planets[k] ELSE g.planets[k + 1]]]

\* The acceleration update computes for planet i of g.
PlanetAcceleration(g, i) == accelerations(g).planet_accelerations[i]

\* The accelerations the planets of g get from each other alone.
FromPlanetsOnly(g) ==
    planet_pair_loop(g, [i \in 1..Len(g.planets) |-> Vector2(0, 0)],
                     PlanetPairs(Len(g.planets)), 1)

\* Planets i and j of g are at exactly the same position.
SamePlace(g, i, j) == g.planets[i].position = g.planets[j].position

\* Planet i of g is at exactly the player's position.
OnPlayer(g, i) == g.planets[i].position = g.player.position

\* C23 (zero-distance guard): in update, two planets at exactly the same
\* position add nothing to each other's acceleration (each is accelerated
\* as if the other were not there), and a planet at exactly the player's
\* position adds nothing to the player's acceleration nor the player to
\* the planet's; the other pairs contribute as they do without the
\* coincident body, and the step is computed (nothing is divided by zero).
C23_ZeroDistanceGuard ==
    LET n == Len(game.planets)
    IN  /\ \A i \in 1..n : \A j \in (i + 1)..n :
              SamePlace(game, i, j) =>
                  /\ PlanetAcceleration(game, i) = PlanetAcceleration(Without(game, j), i)
                  /\ PlanetAcceleration(game, j) = PlanetAcceleration(Without(game, i), j - 1)
        /\ \A i \in 1..n :
              OnPlayer(game, i) =>
                  /\ accelerations(game).player_acceleration
                         = accelerations(Without(game, i)).player_acceleration
                  /\ PlanetAcceleration(game, i) = FromPlanetsOnly(game)[i]
        /\ call.op = "update" =>
              \A i \in 1..n :
                  game.planets[i].velocity
                      = add(call.pre.planets[i].velocity,
                            scale(PlanetAcceleration(call.pre, i), call.dt))

\* C23 witness: an update stepped a Game with two planets at the same
\* position; both were accelerated by the other bodies, and equally.
C23_Witness ==
    /\ call.op = "update"
    /\ Len(call.pre.planets) = 3
    /\ SamePlace(call.pre, 2, 3)
    /\ ~SamePlace(call.pre, 1, 2)
    /\ game.planets[2].velocity # call.pre.planets[2].velocity
    /\ game.planets[3].velocity = game.planets[2].velocity

\* Games with the cache, the masses and the gravitational constant of g
\* and another present state: the player moved, sped up or turned, the
\* planets moved and sped up, and all of these at once.
OtherPresents(g) ==
    LET moved(p) == [p EXCEPT !.position = add(@, Vector2(ONE, -2 * ONE)),
                              !.velocity = add(@, Vector2(-50, 30))]
    IN  { [g EXCEPT !.player.position = add(@, Vector2(2 * ONE, ONE))],
          [g EXCEPT !.player.velocity = add(@, Vector2(0, -ONE))],
          [g EXCEPT !.player.rotation = @ + 5 * ONE],
          [g EXCEPT !.planets = [i \in 1..Len(g.planets) |-> moved(g.planets[i])]],
          [g EXCEPT !.player = [moved(g.player) EXCEPT !.rotation = @ - 2 * ONE],
                    !.planets = [i \in 1..Len(g.planets) |-> moved(g.planets[i])]] }

\* C24 (extend seeds from the cache tail, not from the present): two Games
\* with the same non-empty cache, masses and gravitational constant and
\* different present positions, velocities or rotation get the same cache
\* from extend_trajectories(n), so the same entries are appended to every
\* sequence.
C24_ExtendIgnoresPresent ==
    /\ Len(game.cached_trajectories.player_positions) > 0 =>
           \A h \in OtherPresents(game) : \A n \in 1..MaxExtend :
               /\ h # game
               /\ extend_trajectories(h, n).cached_trajectories
                      = extend_trajectories(game, n).cached_trajectories
    /\ (call.op = "extend" /\ ~panicked) =>
           \A h \in OtherPresents(call.pre) :
               game.cached_trajectories
                   = extend_trajectories(h, call.n).cached_trajectories

\* C24 witness: extend_trajectories(n), n >= 1, ran on a cache whose last
\* entry was not the present state.
C24_Witness ==
    /\ call.op = "extend"
    /\ call.n >= 1
    /\ ~panicked
    /\ LET c == call.pre.cached_trajectories
       IN  CacheAt(c, Len(call.pre.planets), Len(c.player_positions) - 1)
               # PresentState(call.pre)
    /\ Len(game.cached_trajectories.player_positions)
           = Len(call.pre.cached_trajectories.player_positions) + call.n

\* The present state of g with its masses and gravitational constant.
Present(g) == [big_gravity |-> g.big_gravity, planets |-> g.planets, player |-> g.player]

\* C25 (extend is append-only): extend_trajectories(n) on a non-empty cache
\* of length L leaves the entries [0, L) of every sequence as they were,
\* appends exactly n entries to every sequence (new length L + n), and
\* leaves the present player, the present planets and the validity flag
\* unchanged, whether the flag is set or not.
C25_ExtendAppendOnly ==
    /\ (call.op = "extend" /\ ~panicked
           /\ Len(call.pre.cached_trajectories.player_positions) > 0) =>
           LET L == Len(call.pre.cached_trajectories.player_positions)
           IN  /\ KeptFront(game.cached_trajectories, L)
                      = KeptFront(call.pre.cached_trajectories, L)
               /\ SequenceLengths(call.pre.cached_trajectories) = {L}
               /\ SequenceLengths(game.cached_trajectories) = {L + call.n}
               /\ Present(game) = Present(call.pre)
               /\ game.cached_trajectories.is_valid
                      = call.pre.cached_trajectories.is_valid
    /\ Len(game.cached_trajectories.player_positions) > 0 =>
           \A n \in 0..MaxExtend :
               LET h == extend_trajectories(Invalidated(game), n)
                   L == Len(game.cached_trajectories.player_positions)
               IN  /\ ~h.cached_trajectories.is_valid
                   /\ Present(h) = Present(game)
                   /\ KeptFront(h.cached_trajectories, L)
                          = KeptFront(game.cached_trajectories, L)
                   /\ SequenceLengths(h.cached_trajectories) = {L + n}

\* C25 witness: extend_trajectories(n), n >= 1, ran on a cache shortened by
\* advances, whose present state had moved on from the construction.
C25_Witness ==
    /\ call.op = "extend"
    /\ call.n >= 1
    /\ ~panicked
    /\ Len(call.pre.cached_trajectories.player_positions) \in
           1..(TRAJECTORY_NUM_STEPS - 1)
    /\ SequenceLengths(game.cached_trajectories)
           = {Len(call.pre.cached_trajectories.player_positions) + call.n}
    /\ game.cached_trajectories.player_positions[1]
           = call.pre.cached_trajectories.player_positions[1]

\* C26 (a recompute simulates on a scratch copy): after
\* recalculate_trajectories the present player (position, velocity,
\* rotation, mass), every present planet (position, velocity, mass) and
\* the gravitational constant are what they were before the call.
C26_RecomputeKeepsPresent ==
    /\ Present(recalculate_trajectories(game)) = Present(game)
    /\ call.op = "recalculate" => Present(game) = Present(call.pre)
    /\ call.op = "new" =>
           \E u \in Universes :
               /\ game.planets = u.planets
               /\ game.player = u.player
               /\ game.big_gravity = BIG_GRAVITY

\* C26 witness: recalculate_trajectories ran and predicted every body away
\* from where it is (the scratch simulation moved them), on a Game that
\* advances had moved from its construction.
C26_Witness ==
    /\ call.op = "recalculate"
    /\ \A u \in Universes : game.player # u.player
    /\ game.cached_trajectories.player_positions[TRAJECTORY_NUM_STEPS]
           # game.player.position
    /\ \A i \in 1..Len(game.planets) :
          game.cached_trajectories.planet_velocities[i][TRAJECTORY_NUM_STEPS]
              # game.planets[i].velocity

\* C27 (rotation input): apply_to_game with elapsed dt changes the present
\* rotation by -3 * dt when only rotate_left is held, by +3 * dt when only
\* rotate_right is held, by both (net zero) when both are held and by
\* nothing when neither is; the value is kept as computed, below zero and
\* beyond a turn alike, and nothing else in the frame writes it.
C27_RotationInput ==
    call.op = "frame" =>
        LET turn == Mul(3 * ONE, call.dt)
            before == call.pre.player.rotation
            after == call.mid.player.rotation
            left == call.input.rotate_left
            right == call.input.rotate_right
        IN  /\ (left /\ ~right) => after = before - turn
            /\ (right /\ ~left) => after = before + turn
            /\ (left /\ right) => after = before
            /\ (~left /\ ~right) => after = before
            /\ game.player.rotation = after

\* C27 witness: a frame with only rotate_left held took the rotation below
\* zero.
C27_Witness ==
    /\ call.op = "frame"
    /\ call.input.rotate_left
    /\ ~call.input.rotate_right
    /\ game.player.rotation < 0
    /\ game.player.rotation = call.pre.player.rotation - Mul(3 * ONE, call.dt)

\* Positions find_dominant_planet is asked about: the player's and every
\* planet's (as the trajectory drawing does), and three fixed points.
QueryPositions(g) ==
    {g.player.position}
        \cup {g.planets[i].position : i \in 1..Len(g.planets)}
        \cup {Vector2(0, 250), Vector2(2 * ONE, ONE), Vector2(6 * ONE, 6 * ONE)}

\* The planets of g (0-based indices) at non-zero distance from q.
Attracting(g, q) ==
    {i \in 0..(Len(g.planets) - 1) :
        magnitude(subtract(g.planets[i + 1].position, q)) > 0}

\* G * m / r^2 of the planet of index i (0-based) at q.
PullAt(g, q, i) ==
    LET distance == magnitude(subtract(g.planets[i + 1].position, q))
    IN  Div(Mul(g.big_gravity, g.planets[i + 1].mass), Mul(distance, distance))

\* The planets of Attracting(g, q) whose pull at q no other one exceeds.
Strongest(g, q) ==
    {i \in Attracting(g, q) :
        \A j \in Attracting(g, q) : PullAt(g, q, i) >= PullAt(g, q, j)}

\* The smallest element of a non-empty set of indices.
First(S) == CHOOSE i \in S : \A j \in S : i <= j

C29_ExtendZeroIsNoOp ==
    /\ \A g \in {game, Invalidated(game), Unpopulated(game)} :
          /\ ~extend_panics(g, 0)
          /\ extend_trajectories(g, 0) = g
    /\ (call.op = "extend" /\ call.n = 0) =>
          /\ ~panicked
          /\ game = call.pre

\* C29 witness: extend_trajectories(0) was called on a cache that advances
\* had drained to length 0, and returned.
C29_Witness ==
    /\ call.op = "extend"
    /\ call.n = 0
    /\ SequenceLengths(call.pre.cached_trajectories) = {0}
    /\ ~panicked
    /\ game = call.pre

\* The masses of the planets and of the player, the number of planets and
\* the gravitational constant of g.
Constitution(g) ==
    <<[i \in 1..Len(g.planets) |-> g.planets[i].mass], g.player.mass,
      Len(g.planets), g.big_gravity>>

\* C30 (masses, body count and gravitational constant are fixed): no call
\* of apply_to_game, recalculate_trajectories, advance_trajectory,
\* extend_trajectories or update changes a planet's mass, the player's
\* mass, the number of planets or big_gravity; so they are, in every
\* state, those of the scene the Game was constructed from.
C30_FixedConstitution ==
    /\ Constitution(game) = Constitution(call.pre)
    /\ \E u \in Universes :
          Constitution(game)
              = Constitution([big_gravity |-> BIG_GRAVITY, planets |-> u.planets,
                              player |-> u.player])
    /\ \A dt \in UpdateDts : Constitution(update(game, dt)) = Constitution(game)
    /\ Constitution(tick(game)) = Constitution(game)

\* C30 witness: after a thrust and as many advances as the cache holds, the
\* bodies have moved and the masses are those of the two-planet scene.
C30_Witness ==
    /\ call.op = "advance"
    /\ Len(game.cached_trajectories.player_positions) = 0
    /\ \A u \in Universes : game.player.velocity # u.player.velocity
    /\ Len(game.planets) = 2
    /\ Constitution(game) = <<(<<4 * ONE, 1 * ONE>>), 1 * ONE, 2, BIG_GRAVITY>>

\* The Game g with the positions and velocities of cache index k (0-based)
\* as its present state.
AtEntry(g, k) ==
    LET c == g.cached_trajectories
    IN  [g EXCEPT
            !.player = [@ EXCEPT !.position = c.player_positions[k + 1],
                                 !.velocity = c.player_velocities[k + 1]],
            !.planets = [i \in 1..Len(g.planets) |->
                            [g.planets[i] EXCEPT
                                !.position = c.planet_positions[i][k + 1],
                                !.velocity = c.planet_velocities[i][k + 1]]]]

\* C31 (trajectory chain): in every state reached by Game::new, input,
\* advance_trajectory and extend_trajectories, for every index k with k + 1
\* inside the cache the positions and velocities at index k + 1, of the
\* player and of every planet, are those at index k advanced by exactly
\* one tick, and all cached rotation entries are equal.
C31_TrajectoryChain ==
    LET c == game.cached_trajectories
        L == Len(c.player_positions)
    IN  /\ \A k \in 0..(L - 2) :
              Kinematics(AtEntry(game, k + 1)) = Kinematics(tick(AtEntry(game, k)))
        /\ \A j, k \in 1..Len(c.player_rotations) :
              c.player_rotations[j] = c.player_rotations[k]

\* C31 witness: extend_trajectories appended entries to a non-empty cache;
\* the cache holds at least three entries, the player moves between the
\* first two and across the join of the old tail and the first new entry.
C31_Witness ==
    /\ call.op = "extend"
    /\ call.n >= 1
    /\ ~panicked
    /\ Len(call.pre.cached_trajectories.player_positions) >= 1
    /\ Len(game.cached_trajectories.player_positions) >= 3
    /\ game.cached_trajectories.player_positions[1]
           # game.cached_trajectories.player_positions[2]
    /\ LET L == Len(call.pre.cached_trajectories.player_positions)
       IN  game.cached_trajectories.player_positions[L]
               # game.cached_trajectories.player_positions[L + 1]

\* The last call was apply_to_game with thrust and exactly one rotate key
\* held.
AppliedThrustWhileTurning ==
    /\ AppliedThrust
    /\ call.input.rotate_left # call.input.rotate_right

\* The velocity a player with the velocity and mass of before and the given
\* rotation has after the thrust statements of a call with dt.
ThrustAlong(before, rotation, dt) ==
    [x |-> before.velocity.x
               + Mul(Div(Mul(Sin(rotation), thrust_force), before.mass), dt),
     y |-> before.velocity.y
               + Mul(Div(Mul(-Cos(rotation), thrust_force), before.mass), dt)]

\* C32 (rotation before thrust): in an apply_to_game call with a rotate key
\* and thrust held together, the rotation changes by 3 * dt first and the
\* thrust is directed along the rotation already changed in that call.
C32_RotationBeforeThrust ==
    AppliedThrustWhileTurning =>
        LET turn == Mul(rotation_speed, call.dt)
            turned == IF call.input.rotate_left
                      THEN call.pre.player.rotation - turn
                      ELSE call.pre.player.rotation + turn
        IN  /\ game.player.rotation = turned
            /\ game.player.velocity = ThrustAlong(call.pre.player, turned, call.dt)

\* C32 witness: a call with a rotate key and thrust held, in which thrust
\* along the rotation at the start of the call would have given a
\* different velocity.
C32_Witness ==
    /\ AppliedThrustWhileTurning
    /\ game.player.velocity
           # ThrustAlong(call.pre.player, call.pre.player.rotation, call.dt)

\* The reads planet_positions[player_dominant][idx] of the first loop of
\* draw_relative_trajectories, one per index of player_positions (0-based).
overlay_player_reads(g) ==
    LET player_dominant == find_dominant_planet(g, g.player.position)
    IN  {[planet |-> player_dominant, idx |-> idx] :
            idx \in 0..(Len(g.cached_trajectories.player_positions) - 1)}

\* The reads planet_positions[planet_dominant][idx] of the second loop of
\* draw_relative_trajectories: for i in 1..planets.len(), one per index of
\* planet_positions[i] (0-based).
overlay_planet_reads(g) ==
    UNION {LET planet_dominant == find_dominant_planet(g, g.planets[i + 1].position)
           IN  {[planet |-> planet_dominant, idx |-> idx] :
                   idx \in 0..(Len(g.cached_trajectories.planet_positions[i + 1]) - 1)} :
           i \in 1..(Len(g.planets) - 1)}

\* The read planet_positions[read.planet][read.idx] does not panic.
InBounds(g, read) ==
    /\ read.planet < Len(g.planets)
    /\ read.planet < Len(g.cached_trajectories.planet_positions)
    /\ read.idx < Len(g.cached_trajectories.planet_positions[read.planet + 1])

\* draw_trajectories reaches draw_relative_trajectories: the cache is valid.
OverlayDrawn == game.cached_trajectories.is_valid

\* C33 (overlay reads in bounds): in every state of the driving loop with a
\* valid cache and at least one planet, the index find_dominant_planet
\* returns for the player's and for each planet's position is less than the
\* number of planets, and every read planet_positions[dominant][idx], idx
\* an index of player_positions or of a planet_positions[i], is within the
\* length of the sequence read.
C33_OverlayReadsInBounds ==
    (OverlayDrawn /\ Len(game.planets) >= 1) =>
        /\ \A q \in {game.player.position}
                     \cup {game.planets[i].position : i \in 1..Len(game.planets)} :
              find_dominant_planet(game, q) < Len(game.planets)
        /\ \A read \in overlay_player_reads(game) \cup overlay_planet_reads(game) :
              InBounds(game, read)

\* C33 witness: after a frame that advanced and extended the cache, the
\* overlay is drawn with two planets and reads a planet's cached positions
\* at every index of the player's and of the second planet's trajectory,
\* the last index of the cache included.
C33_Witness ==
    /\ call.op = "frame"
    /\ call.n >= 1
    /\ OverlayDrawn
    /\ Len(game.planets) >= 2
    /\ overlay_player_reads(game) # {}
    /\ overlay_planet_reads(game) # {}
    /\ \E a \in overlay_player_reads(game), b \in overlay_planet_reads(game) :
          /\ a.idx = Len(game.cached_trajectories.player_positions) - 1
          /\ b.idx = Len(game.cached_trajectories.planet_positions[2]) - 1
          /\ a.idx >= 1

\* The step is a RedrawRequested: a key event leaves the game, the
\* accumulator and the record of the last call as they were.
FrameStep ==
    /\ call'.op = "frame"
    /\ \/ call' # call
       \/ game' # game
       \/ time_accumulator' # time_accumulator

\* The accumulator of a frame after `time_accumulator += dt * time_warp`.
Accumulated == time_accumulator + Mul(call'.dt, time_warp)

PowersOfTwo == {(2 ^ k) * ONE : k \in 0..8}

\* The last event was a press of the given time-warp key.
Pressed(key) == call.op = key

\* C35 (time warp bound): starting from 1, after any sequence of presses
\* of Period and Comma the time warp is a power of two between 1 and 256;
\* Period doubles it and Comma halves it, except that Period at 256 and
\* Comma at 1 leave it unchanged.
C35_TimeWarpBound ==
    /\ time_warp \in PowersOfTwo
    /\ Pressed("Period") =>
          time_warp = IF call.time_warp = 256 * ONE
                      THEN call.time_warp ELSE 2 * call.time_warp
    /\ Pressed("Comma") =>
          time_warp = IF call.time_warp = 1 * ONE
                      THEN call.time_warp ELSE call.time_warp \div 2

\* C35 witness: Period was pressed with the time warp already at 256.
C35_Witness ==
    /\ Pressed("Period")
    /\ call.time_warp = 256 * ONE
    /\ time_warp = 256 * ONE

=============================================================================
